---- MODULE Spec2Model ----
(***************************************************************************)
(* Model of two pieces of the repository:                                  *)
(*   - CostInsightsPage (plugins/cost-insights): the filter state, the     *)
(*     loading flags, the useEffect that starts getInsights, the requests  *)
(*     of each fetch (Promise.all) and the page's render branches;         *)
(*   - CatalogIdentityClient.findUser: the filter it builds, its single    *)
(*     getEntities call and the zero / one / many outcome.                 *)
(* Maybe<string> values are strings, with null the absent one; fetched     *)
(* records and errors are tuples of strings, with nullRec the absent one.  *)
(***************************************************************************)
EXTENDS Integers, Sequences, FiniteSets, TLC

VARIABLES pageFilters, loading, lastCompleteBillingDate, groupsPending,
          billingPending, projects, alerts, metricData, dailyCost, error,
          effectPending, inflight, lastRun, lookup

pageVars == <<pageFilters, loading, lastCompleteBillingDate, groupsPending,
              billingPending, projects, alerts, metricData, dailyCost, error,
              effectPending, inflight, lastRun>>
dataVars == <<projects, alerts, metricData, dailyCost>>
vars == <<pageVars, lookup>>

-----------------------------------------------------------------------------
(* Bounds of the model *)

\* fetches (getInsights runs with a group) in flight at the same time
MaxInFlight == 2
\* entities one getEntities call returns
MaxEntities == 2

\* Maybe<string>: the absent value, and JavaScript's truthiness of one
null == "<null>"
Truthy(s) == s # null /\ s # ""
\* Maybe<record>: the absent value (records are non-empty tuples)
nullRec == << >>

Groups == {"team-a"}
ProjectIds == {"p1"}
Durations == {"P30D"}
Metrics == {"DAU"}
BillingDates == {"2020-10-01"}
Errors == {<<"Error", "request failed">>}

-----------------------------------------------------------------------------
(* Loading state (useLoading, mapLoadingToProps) *)

UserGroups == "user-groups"
LastCompleteBillingDate == "billing-date"
CostInsightsInitial == "cost-insights-initial"
CostInsightsPage == "cost-insights-page"
CostInsightsProducts == "cost-insights-products"

loadingActions ==
  {UserGroups, LastCompleteBillingDate, CostInsightsInitial, CostInsightsPage,
   CostInsightsProducts}

\* the loading reducer: the dispatched flags overwrite, the others stay
dispatch(l, upd) ==
  [a \in loadingActions |-> IF a \in DOMAIN upd THEN upd[a] ELSE l[a]]

getDefaultState == [a \in loadingActions |-> TRUE]
getResetState == [a \in loadingActions |-> FALSE]
getResetStateWithoutInitial ==
  [a \in loadingActions |-> a \notin {UserGroups, CostInsightsInitial}]

dispatchInitial(l, isLoading) == dispatch(l, CostInsightsInitial :> isLoading)
dispatchInsights(l, isLoading) == dispatch(l, CostInsightsPage :> isLoading)
dispatchNone(l) == dispatch(l, getResetState)
dispatchReset(l) == dispatch(l, getResetStateWithoutInitial)

loadingGroups == loading[UserGroups]
loadingBillingDate == loading[LastCompleteBillingDate]
loadingInitial == loading[CostInsightsInitial]
loadingInsights == loading[CostInsightsPage]

\* the flags among the useEffect's dependencies
FlagDepsChanged(l1, l2) ==
  l1[UserGroups] # l2[UserGroups]
    \/ l1[LastCompleteBillingDate] # l2[LastCompleteBillingDate]

-----------------------------------------------------------------------------
(* The cost API client: a call is the tuple of its name and arguments, and
   its result is an opaque record identified by the call that produced it *)

intervalsOf(duration, date) == duration \o "/" \o date

getGroupProjects(group) == <<"getGroupProjects", group>>
getAlerts(group) == <<"getAlerts", group>>
getDailyMetricData(metric, intervals) == <<"getDailyMetricData", metric, intervals>>
getProjectDailyCost(project, intervals) == <<"getProjectDailyCost", project, intervals>>
getGroupDailyCost(group, intervals) == <<"getGroupDailyCost", group, intervals>>

Slots == {"projects", "alerts", "metricData", "dailyCost"}

\* Requests with the daily-cost branches the wrong way round
RequestsSwapped(f, date) ==
  LET intervals == intervalsOf(f.duration, date) IN
  [projects |-> getGroupProjects(f.group),
   alerts |-> getAlerts(f.group),
   metricData |-> IF Truthy(f.metric)
                  THEN getDailyMetricData(f.metric, intervals)
                  ELSE nullRec,
   dailyCost |-> IF Truthy(f.project)
                 THEN getGroupDailyCost(f.group, intervals)
                 ELSE getProjectDailyCost(f.project, intervals)]

\* the array handed to Promise.all: one entry per slot, nullRec where the
\* entry is the literal null and not a request
Requests(f, date) ==
  LET intervals == intervalsOf(f.duration, date) IN
  [projects |-> getGroupProjects(f.group),
   alerts |-> getAlerts(f.group),
   metricData |-> IF Truthy(f.metric)
                  THEN getDailyMetricData(f.metric, intervals)
                  ELSE nullRec,
   dailyCost |-> IF Truthy(f.project)
                 THEN getProjectDailyCost(f.project, intervals)
                 ELSE getGroupDailyCost(f.group, intervals)]

\* a fetch in flight: its requests and how many of them are still pending
\* (Promise.all looks at how many are fulfilled, not at which)
NewFetch(f, date) ==
  LET reqs == Requests(f, date) IN
  [filters |-> f,
   reqs |-> reqs,
   pending |-> Cardinality({s \in Slots : reqs[s] # nullRec})]

RemoveAt(s, i) == [j \in 1..(Len(s) - 1) |-> IF j < i THEN s[j] ELSE s[j + 1]]

-----------------------------------------------------------------------------
(* CatalogIdentityClient: values *)

AnnotationKeys == {"google.com/email", "backstage.io/ldap-uuid"}
AnnotationValues == {"a@example.com", "b@example.com"}
\* the annotation query maps: Record<string, string> over the keys
UserQueries ==
  UNION {[ks -> AnnotationValues] : ks \in SUBSET AnnotationKeys}

\* the catalog's entities, opaque to the client
Entities == {<<"User", "alice">>, <<"User", "bob">>, <<"User", "carol">>}

RECURSIVE SeqsUpTo(_, _)
SeqsUpTo(S, n) ==
  IF n = 0 THEN {<< >>}
  ELSE LET shorter == SeqsUpTo(S, n - 1) IN
       shorter \cup {Append(q, x) : q \in {r \in shorter : Len(r) = n - 1}, x \in S}

\* what a getEntities call can return
EntityLists == SeqsUpTo(Entities, MaxEntities)

NoOutcome == [threw |-> null, returned |-> nullRec]

-----------------------------------------------------------------------------
(* Initial state: the page as mounted, every loading action loading, no
   group resolved yet, nothing fetched, no lookup made *)

Init ==
  /\ pageFilters \in [group : {null}, project : {null}, duration : Durations,
                      metric : Metrics \cup {null}]
  /\ loading = getDefaultState
  /\ lastCompleteBillingDate = null
  /\ groupsPending = TRUE
  /\ billingPending = TRUE
  /\ projects = nullRec
  /\ alerts = nullRec
  /\ metricData = nullRec
  /\ dailyCost = nullRec
  /\ error = nullRec
  /\ effectPending = TRUE
  /\ inflight = << >>
  /\ lastRun = nullRec
  /\ lookup = [pc |-> "idle", annotations |-> << >>, calls |-> << >>,
               users |-> << >>, outcome |-> NoOutcome]

-----------------------------------------------------------------------------
(* CostInsightsPage *)

\* which branch of the component's render returns
Render ==
  IF loadingInitial THEN "Progress"
  ELSE IF error # nullRec THEN "ErrorAlert"
  ELSE IF ~Truthy(pageFilters.group) THEN "NoGroups"
  ELSE IF dailyCost = nullRec \/ alerts = nullRec THEN "CouldNotFetch"
  ELSE "Dashboard"

\* getInsights without the test of pageFilters.group: it always fetches
getInsightsAlwaysFetching ==
  /\ error' = nullRec
  /\ lastRun' = <<loadingGroups, loadingBillingDate>>
  /\ Len(inflight) < MaxInFlight
  /\ loading' = dispatchInsights(loading, TRUE)
  /\ inflight' = Append(inflight, NewFetch(pageFilters, lastCompleteBillingDate))
  /\ effectPending' = FlagDepsChanged(loading, loading')
  /\ UNCHANGED <<pageFilters, lastCompleteBillingDate, groupsPending,
                 billingPending, dataVars>>

\* getInsights as it would be if a new fetch cancelled the ones in flight
getInsightsCancelling ==
  /\ error' = nullRec
  /\ lastRun' = <<loadingGroups, loadingBillingDate>>
  /\ IF Truthy(pageFilters.group)
     THEN /\ loading' = dispatchInsights(loading, TRUE)
          /\ inflight' = <<NewFetch(pageFilters, lastCompleteBillingDate)>>
     ELSE /\ loading' = dispatchInsights(
                          dispatchInitial(dispatchNone(loading), FALSE), FALSE)
          /\ UNCHANGED inflight
  /\ effectPending' = FlagDepsChanged(loading, loading')
  /\ UNCHANGED <<pageFilters, lastCompleteBillingDate, groupsPending,
                 billingPending, dataVars>>

\* getInsights up to its await (or to its end when no group is selected)
getInsights ==
  /\ error' = nullRec
  /\ lastRun' = <<loadingGroups, loadingBillingDate>>
  /\ IF Truthy(pageFilters.group)
     THEN /\ Len(inflight) < MaxInFlight
          /\ loading' = dispatchInsights(loading, TRUE)
          /\ inflight' = Append(inflight, NewFetch(pageFilters, lastCompleteBillingDate))
     ELSE /\ loading' = dispatchInsights(
                          dispatchInitial(dispatchNone(loading), FALSE), FALSE)
          /\ UNCHANGED inflight
  /\ effectPending' = FlagDepsChanged(loading, loading')
  /\ UNCHANGED <<pageFilters, lastCompleteBillingDate, groupsPending,
                 billingPending, dataVars>>

\* the effect body, run after a render in which a dependency changed
useEffect ==
  /\ effectPending
  /\ IF ~(loadingGroups /\ loadingBillingDate)
     THEN getInsights
     ELSE /\ effectPending' = FALSE
          /\ UNCHANGED <<pageFilters, loading, lastCompleteBillingDate,
                         groupsPending, billingPending, dataVars, error,
                         inflight, lastRun>>
  /\ UNCHANGED lookup

\* insightsFulfilled without the call of setAlerts
insightsFulfilledPartly(i) ==
  /\ projects' = inflight[i].reqs.projects
  /\ metricData' = inflight[i].reqs.metricData
  /\ dailyCost' = inflight[i].reqs.dailyCost
  /\ loading' = dispatchInsights(dispatchInitial(loading, FALSE), FALSE)
  /\ inflight' = RemoveAt(inflight, i)
  /\ effectPending' = (effectPending \/ FlagDepsChanged(loading, loading'))
  /\ UNCHANGED <<pageFilters, lastCompleteBillingDate, groupsPending,
                 billingPending, alerts, error, lastRun>>

\* the continuation of Promise.all when the last request of fetch i is
\* fulfilled: the four setters, then the finally block
insightsFulfilled(i) ==
  /\ projects' = inflight[i].reqs.projects
  /\ alerts' = inflight[i].reqs.alerts
  /\ metricData' = inflight[i].reqs.metricData
  /\ dailyCost' = inflight[i].reqs.dailyCost
  /\ loading' = dispatchInsights(dispatchInitial(loading, FALSE), FALSE)
  /\ inflight' = RemoveAt(inflight, i)
  /\ effectPending' = (effectPending \/ FlagDepsChanged(loading, loading'))
  /\ UNCHANGED <<pageFilters, lastCompleteBillingDate, groupsPending,
                 billingPending, error, lastRun>>

\* insightsRejected without the call of setError
insightsRejectedSilently(i, e) ==
  /\ loading' = dispatchInsights(
                  dispatchInitial(dispatchNone(loading), FALSE), FALSE)
  /\ inflight' = RemoveAt(inflight, i)
  /\ effectPending' = (effectPending \/ FlagDepsChanged(loading, loading'))
  /\ UNCHANGED <<pageFilters, lastCompleteBillingDate, groupsPending,
                 billingPending, dataVars, error, lastRun>>

\* the catch block, then the finally block, when a request of fetch i
\* rejects with e (Promise.all rejects on the first rejection; what the
\* fetch's other requests do afterwards is ignored)
insightsRejected(i, e) ==
  /\ error' = e
  /\ loading' = dispatchInsights(
                  dispatchInitial(dispatchNone(loading), FALSE), FALSE)
  /\ inflight' = RemoveAt(inflight, i)
  /\ effectPending' = (effectPending \/ FlagDepsChanged(loading, loading'))
  /\ UNCHANGED <<pageFilters, lastCompleteBillingDate, groupsPending,
                 billingPending, dataVars, lastRun>>

\* one request of an in-flight fetch is fulfilled
requestFulfilled ==
  /\ \E i \in 1..Len(inflight) :
       IF inflight[i].pending = 1
       THEN insightsFulfilled(i)
       ELSE /\ inflight' = [inflight EXCEPT ![i].pending = @ - 1]
            /\ UNCHANGED <<pageFilters, loading, lastCompleteBillingDate,
                           groupsPending, billingPending, dataVars, error,
                           effectPending, lastRun>>
  /\ UNCHANGED lookup

\* one request of an in-flight fetch rejects
requestRejected ==
  /\ \E i \in 1..Len(inflight) : \E e \in Errors :
       insightsRejected(i, e)
  /\ UNCHANGED lookup

\* setProject without the translation of "all"
setProjectVerbatim(project) ==
  [pageFilters EXCEPT !.project = project]

setProject(project) ==
  [pageFilters EXCEPT !.project = IF project = "all" THEN null ELSE project]

\* ProjectSelect is part of the dashboard branch of the render
onProjectSelect ==
  /\ Render = "Dashboard"
  /\ \E project \in ProjectIds \cup {"all", null} :
       pageFilters' = setProject(project)
  /\ loading' = dispatchReset(loading)
  /\ effectPending' = TRUE
  /\ UNCHANGED <<lastCompleteBillingDate, groupsPending, billingPending,
                 dataVars, error, inflight, lastRun, lookup>>

\* the groups provider finishes loading the user's groups
groupsLoaded ==
  /\ groupsPending
  /\ groupsPending' = FALSE
  /\ loading' = dispatch(loading, UserGroups :> FALSE)
  /\ effectPending' = (effectPending \/ FlagDepsChanged(loading, loading'))
  /\ UNCHANGED <<pageFilters, lastCompleteBillingDate, billingPending,
                 dataVars, error, inflight, lastRun, lookup>>

\* the billing date provider finishes loading the last complete billing date
billingDateLoaded ==
  /\ billingPending
  /\ billingPending' = FALSE
  /\ \E d \in BillingDates : lastCompleteBillingDate' = d
  /\ loading' = dispatch(loading, LastCompleteBillingDate :> FALSE)
  /\ effectPending' = TRUE
  /\ UNCHANGED <<pageFilters, groupsPending, dataVars, error, inflight,
                 lastRun, lookup>>

\* a group of the user is selected (filter provider, group tabs); the
\* project filter belongs to the group and goes with it
setGroup ==
  /\ ~groupsPending
  /\ \E g \in Groups :
       pageFilters' = [pageFilters EXCEPT !.group = g, !.project = null]
  /\ effectPending' = TRUE
  /\ UNCHANGED <<loading, lastCompleteBillingDate, groupsPending,
                 billingPending, dataVars, error, inflight, lastRun, lookup>>

-----------------------------------------------------------------------------
(* CatalogIdentityClient.findUser *)

\* the loop over Object.entries(query.annotations): each entry is assigned
\* into the filter, overwriting an entry of the same name
RECURSIVE assignAnnotations(_, _, _)
assignAnnotations(filter, annotations, keys) ==
  IF keys = {} THEN filter
  ELSE LET key == CHOOSE k \in keys : TRUE IN
       assignAnnotations(
         (("metadata.annotations." \o key) :> annotations[key]) @@ filter,
         annotations, keys \ {key})

\* buildFilter with the annotation keys used as they are, unprefixed
buildFilterUnprefixed(annotations) ==
  annotations @@ ("kind" :> "user")

buildFilter(annotations) ==
  assignAnnotations("kind" :> "user", annotations, DOMAIN annotations)

\* checkUsers with the two errors the wrong way round
checkUsersSwapped(users) ==
  IF Len(users) # 1
  THEN IF Len(users) > 1
       THEN [threw |-> "NotFoundError", returned |-> nullRec]
       ELSE [threw |-> "ConflictError", returned |-> nullRec]
  ELSE [threw |-> null, returned |-> users[1]]

\* the part of findUser after the await, for the list getEntities returned
checkUsers(users) ==
  IF Len(users) # 1
  THEN IF Len(users) > 1
       THEN [threw |-> "ConflictError", returned |-> nullRec]
       ELSE [threw |-> "NotFoundError", returned |-> nullRec]
  ELSE [threw |-> null, returned |-> users[1]]

\* findUser is called: it builds the filter and calls getEntities
findUser ==
  /\ lookup.pc \in {"idle", "done"}
  /\ \E annotations \in UserQueries :
       lookup' = [pc |-> "awaiting", annotations |-> annotations,
                  calls |-> <<buildFilter(annotations)>>,
                  users |-> << >>, outcome |-> NoOutcome]
  /\ UNCHANGED pageVars

\* getEntities resolves and findUser throws or returns
getEntitiesReturned ==
  /\ lookup.pc = "awaiting"
  /\ \E users \in EntityLists :
       lookup' = [lookup EXCEPT !.pc = "done", !.users = users,
                                !.outcome = checkUsers(users)]
  /\ UNCHANGED pageVars

-----------------------------------------------------------------------------
(* Specifications: the page, and the identity client *)

Next ==
  \/ useEffect
  \/ requestFulfilled
  \/ requestRejected
  \/ onProjectSelect
  \/ groupsLoaded
  \/ billingDateLoaded
  \/ setGroup

Spec == Init /\ [][Next]_vars

IdentityNext ==
  \/ findUser
  \/ getEntitiesReturned

IdentitySpec == Init /\ [][IdentityNext]_vars

-----------------------------------------------------------------------------
(* Properties *)

AnnotationField(key) == "metadata.annotations." \o key
GuardPasses == ~(loadingGroups /\ loadingBillingDate)
\* a step of the effect in which getInsights runs
InsightsStart == useEffect /\ GuardPasses
\* a step in which getInsights runs with a group selected and starts a
\* fetch: its record is the last of inflight'
FetchStart == InsightsStart /\ Truthy(pageFilters.group)
\* a step in which the last request of a fetch is fulfilled
FetchFulfilled == requestFulfilled /\ Len(inflight') < Len(inflight)
DailyCostCalls == {"getProjectDailyCost", "getGroupDailyCost"}
AllNotLoading(l) == \A a \in loadingActions : ~l[a]

\* C1: when getEntities has returned, findUser threw NotFoundError if the
\* list is empty, threw ConflictError if it holds two or more entities, and
\* returned the list's only entity, as it is, if it holds exactly one.
C1_FindUserCardinality ==
  lookup.pc = "done" =>
    /\ Len(lookup.users) = 0 =>
         lookup.outcome = [threw |-> "NotFoundError", returned |-> nullRec]
    /\ Len(lookup.users) >= 2 =>
         lookup.outcome = [threw |-> "ConflictError", returned |-> nullRec]
    /\ Len(lookup.users) = 1 =>
         lookup.outcome = [threw |-> null, returned |-> lookup.users[1]]

C1_Witness ==
  /\ lookup.pc = "done"
  /\ Len(lookup.users) >= 2
  /\ lookup.outcome.threw = "ConflictError"

\* C2 as stated: whenever no group is selected, the page renders the
\* no-groups view (and no fetch is in flight).
C2_Original ==
  ~Truthy(pageFilters.group) => (Render = "NoGroups" /\ inflight = << >>)

\* C2 as amended: no step taken while no group is selected starts a fetch,
\* and a run of getInsights with no group selected leaves the page rendering
\* the no-groups view.
C2_NoGroupNoFetch ==
  [][/\ ~Truthy(pageFilters.group) => inflight' = inflight
     /\ (InsightsStart /\ ~Truthy(pageFilters.group)) => Render' = "NoGroups"]_vars

C2_Witness ==
  /\ lastRun # nullRec
  /\ ~Truthy(pageFilters.group)
  /\ ~effectPending
  /\ Render = "NoGroups"

\* C3: a fetch that starts holds exactly one daily-cost request:
\* getGroupDailyCost(group, intervals) when the project filter is null,
\* getProjectDailyCost(project, intervals) when it is set.
C3_OneDailyCostRequest ==
  [][FetchStart =>
       LET reqs == inflight'[Len(inflight')].reqs
           intervals == intervalsOf(pageFilters.duration, lastCompleteBillingDate)
           daily == {s \in Slots : reqs[s] # nullRec /\ reqs[s][1] \in DailyCostCalls}
       IN /\ Cardinality(daily) = 1
          /\ pageFilters.project = null =>
               \E s \in daily : reqs[s] = getGroupDailyCost(pageFilters.group, intervals)
          /\ pageFilters.project # null =>
               \E s \in daily : reqs[s] = getProjectDailyCost(pageFilters.project, intervals)]_vars

C3_Witness ==
  \E i \in 1..Len(inflight) :
    /\ inflight[i].filters.project = "p1"
    /\ inflight[i].reqs.dailyCost[1] = "getProjectDailyCost"

\* C4: the step that handles the rejection of a fetch ends with every
\* loading action not loading and with an error stored.
C4_RejectionClearsLoading ==
  [][requestRejected => (AllNotLoading(loading') /\ error' # nullRec)]_vars

C4_Witness ==
  /\ error # nullRec
  /\ AllNotLoading(loading)
  /\ Truthy(pageFilters.group)

\* C5: the four fetched-data states change only in the step in which the
\* last request of a fetch is fulfilled, and then all four become that
\* fetch's results; every other step (a request fulfilled while others are
\* pending, a rejection, a new fetch) leaves all four as they were.
C5_AllOrNothing ==
  [][/\ FetchFulfilled =>
          \E i \in 1..Len(inflight) :
            /\ inflight[i].pending = 1
            /\ inflight' = RemoveAt(inflight, i)
            /\ <<projects', alerts', metricData', dailyCost'>>
                 = <<inflight[i].reqs.projects, inflight[i].reqs.alerts,
                     inflight[i].reqs.metricData, inflight[i].reqs.dailyCost>>
     /\ ~FetchFulfilled => dataVars' = dataVars]_vars

\* a fetch was fulfilled, and a later one was rejected and left its data
C5_Witness ==
  /\ dailyCost # nullRec
  /\ alerts # nullRec
  /\ error # nullRec

\* C6: a change of the filters leaves the fetches in flight as they are, and
\* a fetch that starts is added to those in flight, which stay.
C6_NoCancellation ==
  [][/\ (onProjectSelect \/ setGroup) => inflight' = inflight
     /\ FetchStart => (/\ Len(inflight') = Len(inflight) + 1
                       /\ SubSeq(inflight', 1, Len(inflight)) = inflight)]_vars

\* the page at rest, without error, showing the daily cost of a fetch made
\* for other filters than the current ones: the older fetch resolved last
C6_Witness ==
  /\ inflight = << >>
  /\ ~effectPending
  /\ error = nullRec
  /\ Truthy(pageFilters.group)
  /\ dailyCost # nullRec
  /\ dailyCost[2] # (IF Truthy(pageFilters.project) THEN pageFilters.project
                     ELSE pageFilters.group)

\* C7: from the call of findUser on, exactly one getEntities call was made,
\* and its filter holds kind = "user", one entry metadata.annotations.k = v
\* per annotation k = v, and nothing else.
C7_FilterOfQuery ==
  lookup.pc # "idle" =>
    /\ Len(lookup.calls) = 1
    /\ DOMAIN lookup.calls[1]
         = {"kind"} \cup {AnnotationField(k) : k \in DOMAIN lookup.annotations}
    /\ lookup.calls[1]["kind"] = "user"
    /\ \A k \in DOMAIN lookup.annotations :
         lookup.calls[1][AnnotationField(k)] = lookup.annotations[k]

C7_Witness ==
  /\ lookup.pc = "done"
  /\ DOMAIN lookup.annotations = AnnotationKeys
  /\ Len(lookup.calls) = 1

\* C8 as stated: every run of getInsights started in a state where neither
\* the groups nor the billing date was still loading.
C8_WaitsForMetadata ==
  lastRun # nullRec => lastRun = <<FALSE, FALSE>>

\* C9: onProjectSelect leaves group, duration and metric as they are, stores
\* null for "all" and the project otherwise, and resets the loading actions
\* (initial not loading, page and products loading); no request is ever made
\* for a project "all".
C9_ProjectSelect ==
  /\ [](\A p \in ProjectIds \cup {"all", null} :
          setProject(p) = [group |-> pageFilters.group,
                           project |-> IF p = "all" THEN null ELSE p,
                           duration |-> pageFilters.duration,
                           metric |-> pageFilters.metric])
  /\ [](\A i \in 1..Len(inflight) : inflight[i].reqs.dailyCost[2] # "all")
  /\ [][onProjectSelect =>
          /\ pageFilters'.group = pageFilters.group
          /\ pageFilters'.duration = pageFilters.duration
          /\ pageFilters'.metric = pageFilters.metric
          /\ pageFilters'.project \in ProjectIds \cup {null}
          /\ ~loading'[CostInsightsInitial]
          /\ loading'[CostInsightsPage]
          /\ loading'[CostInsightsProducts]]_vars

\* after a project's cost was shown, the project filter is back to null and
\* the fetch that followed asks for the group's daily cost
C9_Witness ==
  /\ pageFilters.project = null
  /\ dailyCost # nullRec
  /\ dailyCost[1] = "getProjectDailyCost"
  /\ loading[CostInsightsProducts]
  /\ \E i \in 1..Len(inflight) :
       inflight[i].reqs.dailyCost[1] = "getGroupDailyCost"

\* C10 as stated: while a fetch is in flight the insights loading flag is
\* set.
C10_LoadingWhileInFlight ==
  Len(inflight) > 0 => loadingInsights
====
